---- MODULE Spec2Model ----
(***************************************************************************)
(* Model of tools/scripts/create_instance_redactions.py: the driver that   *)
(* walks the annotated images, groups the polygons of every image by       *)
(* instance and writes six kinds of derived images per instance.           *)
(*                                                                         *)
(* Text (file names, paths) is a sequence of one-character strings, so     *)
(* that splitting a file name and formatting an output name are computed   *)
(* as the code computes them.  An image is a record [src, ops]: the path   *)
(* it was decoded from and the sequence of library operations applied to   *)
(* the pixels since.                                                       *)
(***************************************************************************)
EXTENDS Integers, Sequences, FiniteSets, TLC

\* ------------------------------------------------------------------ bounds
\* most regions in one annotation file, over all its records
MaxRegions == 4

\* ------------------------------------------------------------------- text
cat_jpg == <<"c","a","t",".","j","p","g">>
cat_0_jpg == <<"c","a","t","-","0",".","j","p","g">>
\* a mapping key that is not a file name (the loader interface allows it)
img_key == <<"k","1">>

\* the file names annotation records may carry
Files == {cat_jpg, cat_0_jpg}
\* the keys a loader mapping may use
Keys == Files \cup {img_key}

\* the instance ids regions may carry
InstIds == {0, 1}

\* directory holding the source images (anno['filepath'] = ImgDir + filename)
ImgDir == <<"d","/">>
\* params['out_dir']
out_dir == <<"o">>

\* p.rfind(c): the last position of c in p, 0 when absent (positions from 1)
RFind(p, c) ==
    LET hits == {j \in 1..Len(p) : p[j] = c}
    IN IF hits = {} THEN 0 ELSE CHOOSE j \in hits : \A j2 \in hits : j2 <= j

\* os.path.splitext: split at the last dot of the last path component,
\* unless that component has only leading dots
SplitExt(p) ==
    LET sepIndex == RFind(p, "/")
        dotIndex == RFind(p, ".")
    IN IF dotIndex > sepIndex
          /\ \E j \in (sepIndex + 1)..(dotIndex - 1) : p[j] # "."
       THEN <<SubSeq(p, 1, dotIndex - 1), SubSeq(p, dotIndex, Len(p))>>
       ELSE <<p, <<>> >>

\* os.path.join(a, b) for two components
Join(a, b) ==
    IF Len(b) > 0 /\ b[1] = "/" THEN b
    ELSE IF a = <<>> \/ a[Len(a)] = "/" THEN a \o b
    ELSE a \o <<"/">> \o b

DigitChar(d) == <<"0","1","2","3","4","5","6","7","8","9">>[d + 1]

\* '{}'.format(n) of a non-negative integer: its decimal digits
RECURSIVE Str(_)
Str(n) == IF n < 10 THEN <<DigitChar(n)>> ELSE Str(n \div 10) \o <<DigitChar(n % 10)>>

\* the kind words of the six format strings
KindWord(kind) ==
    CASE kind = "outline" -> <<"o","u","t","l","i","n","e">>
      [] kind = "blurred" -> <<"b","l","u","r","r","e","d">>
      [] kind = "redacted" -> <<"r","e","d","a","c","t","e","d">>
      [] kind = "cropped" -> <<"c","r","o","p","p","e","d">>
      [] kind = "sq-cropped" -> <<"s","q","-","c","r","o","p","p","e","d">>
      [] kind = "circ-cropped" -> <<"c","i","r","c","-","c","r","o","p","p","e","d">>

WholeKinds == {"outline", "blurred", "redacted"}
PolyKinds == {"cropped", "sq-cropped", "circ-cropped"}

\* '{}-{}-<kind>{}'.format(file_id, instance_idx, file_ext)
OutName3(file_id, inst, kind, file_ext) ==
    file_id \o <<"-">> \o Str(inst) \o <<"-">> \o KindWord(kind) \o file_ext

\* a format string that forgets the sub-index
OutName4NoIdx(file_id, inst, kind, idx, file_ext) ==
    file_id \o <<"-">> \o Str(inst) \o <<"-">> \o KindWord(kind) \o file_ext

\* '{}-{}-<kind>-{}{}'.format(file_id, instance_idx, idx, file_ext)
OutName4(file_id, inst, kind, idx, file_ext) ==
    file_id \o <<"-">> \o Str(inst) \o <<"-">> \o KindWord(kind)
            \o <<"-">> \o Str(idx) \o file_ext

\* the output path of an artifact of image `fname`
OutPath3(fname, inst, kind) ==
    LET fe == SplitExt(fname) IN Join(out_dir, OutName3(fe[1], inst, kind, fe[2]))
OutPath4(fname, inst, kind, idx) ==
    LET fe == SplitExt(fname) IN Join(out_dir, OutName4(fe[1], inst, kind, idx, fe[2]))

\* ------------------------------------------------------------ annotations
\* one annotation record of the loader
Anno(fname, regions) ==
    [filename |-> fname, filepath |-> ImgDir \o fname, regions |-> regions]

\* sq_cropped_img.size: the width and height of the crop crop_region cuts
\* for polygon k (3 x 5, 4 x 4, 5 x 3, ...)
CropSize(k) == <<k + 2, IF k < 5 THEN 6 - k ELSE 1>>

\* the size of every source image on disk (width, height)
ImageSize == <<20, 10>>

\* the region lists of a record: region k carries polygon k and an instance id
RegionLists ==
    UNION {{[k \in 1..n |-> [poly |-> k, inst |-> g[k]]] : g \in [1..n -> InstIds]}
           : n \in 0..MaxRegions}

\* via_regions_to_polygons(regions, include_instance=True)
ViaRegionsToPolygons(regions) ==
    [polygons |-> [k \in 1..Len(regions) |-> regions[k].poly],
     instances |-> [k \in 1..Len(regions) |-> regions[k].inst]]

\* a set built from the mapping's keys instead of the records' file names
ViaKeySet(vl) == DOMAIN vl

\* via_fname_set = set([e['filename'] for k, e in via_list.iteritems()])
ViaFnameSet(vl) == {vl[k].filename : k \in DOMAIN vl}

\* a test that also drops single-region images
IsEmptyRegionsLoose(regions) == Len(regions) <= 1

\* len(regions) == 0
IsEmptyRegions(regions) == Len(regions) = 0

\* set(instances)
InstanceSet(insts) == {insts[k] : k \in 1..Len(insts)}

\* a grouping loop that inserts at the front
RECURSIVE PolygonsOfPrepend(_, _, _)
PolygonsOfPrepend(polys, insts, i) ==
    IF Len(polys) = 0 \/ Len(insts) = 0 THEN <<>>
    ELSE LET rest == PolygonsOfPrepend(Tail(polys), Tail(insts), i)
         IN IF Head(insts) = i THEN rest \o <<Head(polys)>> ELSE rest

\* the loop over zip(polygons, instances) appending the polygons of instance i
RECURSIVE PolygonsOf(_, _, _)
PolygonsOf(polys, insts, i) ==
    IF Len(polys) = 0 \/ Len(insts) = 0 THEN <<>>
    ELSE LET rest == PolygonsOf(Tail(polys), Tail(insts), i)
         IN IF Head(insts) = i THEN <<Head(polys)>> \o rest ELSE rest

\* an enumeration that stops one short
EnumerateShort(list) == [k \in 1..(Len(list) - 1) |-> <<k - 1, list[k]>>]

\* enumerate(this_polygon_list): the pairs (idx, poly), idx from 0
Enumerate(list) == [k \in 1..Len(list) |-> <<k - 1, list[k]>>]

\* ------------------------------------------------------------------ state
VARIABLES
    via_list,          \* the loader's mapping: key -> annotation record
    disk,              \* the source images: path -> size (width, height)
    lib_inplace,       \* whether the transform library edits its argument in place
    todo,              \* the names of via_fname_set the file loop has not reached
    pc,                \* position of main()
    num_skipped,
    key,               \* the file loop's variable
    im,                \* the decoded image: its buffer in heap, 0 before any open
    polygons, instances,
    inst_todo,         \* the ids of set(instances) the instance loop has not reached
    instance_idx, this_polygon_list,
    heap,              \* the live image buffers
    xform_inputs,      \* the buffers handed to the transform library for this image
    fs,                \* the output files: path -> image
    writes,            \* how often each path has been saved
    opened,            \* the paths given to Image.open, in order
    visited,           \* the (key, this_filename) pairs the file loop looked up
    error,             \* the exception that ended the run, "none" otherwise
    inst_w, int_h,     \* im.size, then the size of the polygon crop in hand
    box                \* the square crop box (x1, y1, x2, y2)

vars == <<via_list, disk, lib_inplace, todo, pc, num_skipped, key, im, polygons, instances,
          inst_todo, instance_idx, this_polygon_list, heap, xform_inputs, fs, writes,
          opened, visited, error, inst_w, int_h, box>>

NoFiles == [p \in {} |-> 0]

\* ------------------------------------------------------------ image buffers
\* a copy that hands back the buffer it was given
CopyAlias(h, b) == [heap |-> h, buf |-> b]

\* im.copy(): a new buffer holding the same pixels
Copy(h, b) == [heap |-> Append(h, h[b]), buf |-> Len(h) + 1]

\* the library calls of the driver, with their parameters
Op(kind, poly) ==
    CASE kind = "outline" -> <<"draw_outline_on_img", poly, "yellow", 4>>
      [] kind = "blurred" -> <<"blur_region", poly, 10>>
      [] kind = "redacted" -> <<"fill_region", poly, "yellow">>
      [] kind = "cropped" -> <<"crop_region", poly, "grayscale", 255>>
      [] kind = "sq-cropped" -> <<"crop_region", poly, "grayscale", 0>>

\* one call of the transform library on buffer st.buf: the result is the
\* argument edited in place or a new buffer, as the library chooses
Transform(st, op) ==
    LET res == [src |-> st.heap[st.buf].src, ops |-> Append(st.heap[st.buf].ops, op)]
    IN IF lib_inplace
       THEN [heap |-> [st.heap EXCEPT ![st.buf] = res],
             buf |-> st.buf, inputs |-> st.inputs \cup {st.buf}]
       ELSE [heap |-> Append(st.heap, res),
             buf |-> Len(st.heap) + 1, inputs |-> st.inputs \cup {st.buf}]

\* a PIL call that returns a new image (crop, fit, putalpha on it, rgba_to_rgb)
Derive(img, what) == [src |-> img.src, ops |-> Append(img.ops, what)]

\* a loop that starts again from a copy of the original for every polygon
RECURSIVE ApplyLast(_, _, _, _)
ApplyLast(st, polys, k, kind) ==
    IF k > Len(polys) THEN st
    ELSE LET c == Copy(st.heap, im)
         IN ApplyLast(Transform([heap |-> c.heap, buf |-> c.buf, inputs |-> st.inputs],
                                Op(kind, polys[k])),
                      polys, k + 1, kind)

\* for poly in this_polygon_list: img = transform(img, poly, ...)
RECURSIVE ApplyAll(_, _, _, _)
ApplyAll(st, polys, k, kind) ==
    IF k > Len(polys) THEN st
    ELSE ApplyAll(Transform(st, Op(kind, polys[k])), polys, k + 1, kind)

\* img.save(path)
Save(files, path, img) ==
    [p \in DOMAIN files \cup {path} |-> IF p = path THEN img ELSE files[p]]
Count(w, path) ==
    [p \in DOMAIN w \cup {path} |->
        IF p = path THEN (IF p \in DOMAIN w THEN w[p] + 1 ELSE 1) ELSE w[p]]

\* the square central crop box of a w x h image (integers, floor division)
SquareBox(w, h) ==
    LET min_side_len == IF w < h THEN w ELSE h
        x1 == (w \div 2) - (min_side_len \div 2)
        y1 == (h \div 2) - (min_side_len \div 2)
        x2 == (w \div 2) + (min_side_len \div 2)
        y2 == (h \div 2) + (min_side_len \div 2)
    IN <<x1, y1, x2, y2>>

this_filename == via_list[key].filename

\* D: one cropped file per polygon of the instance
RECURSIVE CropAll(_, _, _)
CropAll(st, pairs, k) ==
    IF k > Len(pairs) THEN st
    ELSE LET c == Copy(st.heap, im)
             t == Transform([heap |-> c.heap, buf |-> c.buf, inputs |-> st.inputs],
                            Op("cropped", pairs[k][2]))
             path == OutPath4(this_filename, instance_idx, "cropped", pairs[k][1])
         IN CropAll([heap |-> <<t.heap[1]>>, inputs |-> t.inputs,
                     fs |-> Save(st.fs, path, t.heap[t.buf]),
                     writes |-> Count(st.writes, path)],
                    pairs, k + 1)

\* E, F: one sq-cropped and one circ-cropped file per polygon of the instance
RECURSIVE SqCircAll(_, _, _)
SqCircAll(st, pairs, k) ==
    IF k > Len(pairs) THEN st
    ELSE LET c == Copy(st.heap, im)
             t == Transform([heap |-> c.heap, buf |-> c.buf, inputs |-> st.inputs],
                            Op("sq-cropped", pairs[k][2]))
             size == CropSize(pairs[k][2])
             bx == SquareBox(size[1], size[2])
             sq == Derive(t.heap[t.buf], <<"crop", bx>>)
             sq_size == <<bx[3] - bx[1], bx[4] - bx[2]>>
             circ == Derive(Derive(Derive(sq, <<"fit", sq_size>>), <<"putalpha_ellipse">>),
                            <<"rgba_to_rgb">>)
             sq_path == OutPath4(this_filename, instance_idx, "sq-cropped", pairs[k][1])
             circ_path == OutPath4(this_filename, instance_idx, "circ-cropped", pairs[k][1])
         IN SqCircAll([heap |-> <<t.heap[1]>>, inputs |-> t.inputs,
                       fs |-> Save(Save(st.fs, sq_path, sq), circ_path, circ),
                       writes |-> Count(Count(st.writes, sq_path), circ_path),
                       inst_w |-> size[1], int_h |-> size[2], box |-> bx],
                      pairs, k + 1)

\* ------------------------------------------------------------------- Init
\* the locals of main() before the file loop has bound them
Locals ==
    /\ pc = "files"
    /\ num_skipped = 0
    /\ key = <<>>
    /\ im = 0
    /\ polygons = <<>>
    /\ instances = <<>>
    /\ inst_todo = {}
    /\ instance_idx = 0
    /\ this_polygon_list = <<>>
    /\ heap = <<>>
    /\ xform_inputs = {}
    /\ fs = NoFiles
    /\ writes = NoFiles
    /\ opened = <<>>
    /\ visited = <<>>
    /\ error = "none"
    /\ inst_w = 0
    /\ int_h = 0
    /\ box = <<0, 0, 0, 0>>

\* the images the records point to
Disk == [p \in {ImgDir \o f : f \in Files} |-> ImageSize]

\* the number of regions of the records of D
RECURSIVE TotalRegions(_, _)
TotalRegions(rg, D) ==
    IF D = {} THEN 0
    ELSE LET f == CHOOSE f \in D : TRUE
         IN Len(rg[f]) + TotalRegions(rg, D \ {f})

\* main() at the head of the file loop, the loader having stored every
\* record under its file name
Init ==
    /\ \E D \in SUBSET Files : \E rg \in [D -> RegionLists] :
          /\ TotalRegions(rg, D) <= MaxRegions
          /\ via_list = [f \in D |-> Anno(f, rg[f])]
    /\ disk = Disk
    /\ lib_inplace \in BOOLEAN
    /\ todo = ViaFnameSet(via_list)
    /\ Locals

\* ---------------------------------------------------------------- actions
Looked(k) == Append(visited, [key |-> k, filename |-> via_list[k].filename])

\* lines 59-67: a record without regions is counted and passed over
Skip ==
    /\ pc = "files"
    /\ \E k \in todo :
          /\ k \in DOMAIN via_list
          /\ IsEmptyRegions(via_list[k].regions)
          /\ key' = k
          /\ todo' = todo \ {k}
          /\ visited' = Looked(k)
    /\ num_skipped' = num_skipped + 1
    /\ UNCHANGED <<via_list, disk, lib_inplace, pc, im, polygons, instances, inst_todo,
                   instance_idx, this_polygon_list, heap, xform_inputs, fs, writes,
                   opened, error, inst_w, int_h, box>>

\* lines 59-75: the image of a record with regions is decoded and its
\* polygons extracted
OpenImage ==
    /\ pc = "files"
    /\ \E k \in todo :
          /\ k \in DOMAIN via_list
          /\ ~IsEmptyRegions(via_list[k].regions)
          /\ key' = k
          /\ todo' = todo \ {k}
          /\ visited' = Looked(k)
          /\ opened' = Append(opened, via_list[k].filepath)
          /\ heap' = <<[src |-> via_list[k].filepath, ops |-> <<>>]>>
          /\ polygons' = ViaRegionsToPolygons(via_list[k].regions).polygons
          /\ instances' = ViaRegionsToPolygons(via_list[k].regions).instances
          /\ inst_w' = disk[via_list[k].filepath][1]
          /\ int_h' = disk[via_list[k].filepath][2]
    /\ im' = 1
    /\ xform_inputs' = {}
    /\ inst_todo' = InstanceSet(instances')
    /\ pc' = "instances"
    /\ UNCHANGED <<via_list, disk, lib_inplace, num_skipped, instance_idx,
                   this_polygon_list, fs, writes, error, box>>

\* an open failure that is passed over like an empty record
OpenFailContinue ==
    /\ pc = "files"
    /\ \E k \in todo :
          /\ k \in DOMAIN via_list
          /\ ~IsEmptyRegions(via_list[k].regions)
          /\ key' = k
          /\ todo' = todo \ {k}
          /\ visited' = Looked(k)
    /\ error' = "IOError"
    /\ UNCHANGED <<via_list, disk, lib_inplace, pc, num_skipped, im, polygons, instances,
                   inst_todo, instance_idx, this_polygon_list, heap, xform_inputs, fs,
                   writes, opened, inst_w, int_h, box>>

\* lines 59-70: Image.open raises; nothing catches it
OpenFail ==
    /\ pc = "files"
    /\ \E k \in todo :
          /\ k \in DOMAIN via_list
          /\ ~IsEmptyRegions(via_list[k].regions)
          /\ key' = k
          /\ todo' = todo \ {k}
          /\ visited' = Looked(k)
    /\ error' = "IOError"
    /\ pc' = "aborted"
    /\ UNCHANGED <<via_list, disk, lib_inplace, num_skipped, im, polygons, instances,
                   inst_todo, instance_idx, this_polygon_list, heap, xform_inputs, fs,
                   writes, opened, inst_w, int_h, box>>

\* line 60: via_list has no entry under the name; nothing catches the KeyError
LookupFail ==
    /\ pc = "files"
    /\ \E k \in todo :
          /\ k \notin DOMAIN via_list
          /\ key' = k
          /\ todo' = todo \ {k}
    /\ error' = "KeyError"
    /\ pc' = "aborted"
    /\ UNCHANGED <<via_list, disk, lib_inplace, num_skipped, im, polygons, instances,
                   inst_todo, instance_idx, this_polygon_list, heap, xform_inputs, fs,
                   writes, opened, visited, inst_w, int_h, box>>

\* an instance loop that decodes the image again for every instance
NextInstanceReopen ==
    /\ pc = "instances"
    /\ \E i \in inst_todo :
          /\ instance_idx' = i
          /\ inst_todo' = inst_todo \ {i}
          /\ this_polygon_list' = PolygonsOf(polygons, instances, i)
    /\ opened' = Append(opened, via_list[key].filepath)
    /\ pc' = "A"
    /\ UNCHANGED <<via_list, disk, lib_inplace, todo, num_skipped, key, im, polygons,
                   instances, heap, xform_inputs, fs, writes, visited, error,
                   inst_w, int_h, box>>

\* lines 78-83: the next instance id and the polygons that carry it
NextInstance ==
    /\ pc = "instances"
    /\ \E i \in inst_todo :
          /\ instance_idx' = i
          /\ inst_todo' = inst_todo \ {i}
          /\ this_polygon_list' = PolygonsOf(polygons, instances, i)
    /\ pc' = "A"
    /\ UNCHANGED <<via_list, disk, lib_inplace, todo, num_skipped, key, im, polygons,
                   instances, heap, xform_inputs, fs, writes, opened, visited, error,
                   inst_w, int_h, box>>

\* the three whole-image artifacts: copy, one library call per polygon, save.
\* The copy and the intermediate results are not referenced after the save, so
\* only the decoded original stays in heap.
Whole(kind, next) ==
    LET c == Copy(heap, im)
        r == ApplyAll([heap |-> c.heap, buf |-> c.buf, inputs |-> xform_inputs],
                      this_polygon_list, 1, kind)
        path == OutPath3(this_filename, instance_idx, kind)
    IN /\ fs' = Save(fs, path, r.heap[r.buf])
       /\ writes' = Count(writes, path)
       /\ heap' = <<r.heap[1]>>
       /\ xform_inputs' = r.inputs
       /\ pc' = next
       /\ UNCHANGED <<via_list, disk, lib_inplace, todo, num_skipped, key, im, polygons,
                      instances, inst_todo, instance_idx, this_polygon_list, opened,
                      visited, error, inst_w, int_h, box>>

\* lines 85-91
Outline == pc = "A" /\ Whole("outline", "B")

\* lines 93-99
Blur == pc = "B" /\ Whole("blurred", "C")

\* lines 101-107
Redact == pc = "C" /\ Whole("redacted", "D")

\* lines 109-116
Crop ==
    /\ pc = "D"
    /\ LET r == CropAll([heap |-> heap, inputs |-> xform_inputs, fs |-> fs,
                         writes |-> writes], Enumerate(this_polygon_list), 1)
       IN /\ fs' = r.fs
          /\ writes' = r.writes
          /\ heap' = r.heap
          /\ xform_inputs' = r.inputs
    /\ pc' = "E"
    /\ UNCHANGED <<via_list, disk, lib_inplace, todo, num_skipped, key, im, polygons,
                   instances, inst_todo, instance_idx, this_polygon_list, opened,
                   visited, error, inst_w, int_h, box>>

\* lines 118-151
SqCirc ==
    /\ pc = "E"
    /\ LET r == SqCircAll([heap |-> heap, inputs |-> xform_inputs, fs |-> fs,
                           writes |-> writes, inst_w |-> inst_w, int_h |-> int_h,
                           box |-> box], Enumerate(this_polygon_list), 1)
       IN /\ fs' = r.fs
          /\ writes' = r.writes
          /\ heap' = r.heap
          /\ xform_inputs' = r.inputs
          /\ inst_w' = r.inst_w
          /\ int_h' = r.int_h
          /\ box' = r.box
    /\ pc' = "instances"
    /\ UNCHANGED <<via_list, disk, lib_inplace, todo, num_skipped, key, im, polygons,
                   instances, inst_todo, instance_idx, this_polygon_list, opened,
                   visited, error>>

\* line 78: set(instances) is exhausted, back to the file loop
EndImage ==
    /\ pc = "instances"
    /\ inst_todo = {}
    /\ pc' = "files"
    /\ UNCHANGED <<via_list, disk, lib_inplace, todo, num_skipped, key, im, polygons,
                   instances, inst_todo, instance_idx, this_polygon_list, heap,
                   xform_inputs, fs, writes, opened, visited, error, inst_w, int_h, box>>

\* line 59: via_fname_set is exhausted, main() returns
Finish ==
    /\ pc = "files"
    /\ todo = {}
    /\ pc' = "done"
    /\ UNCHANGED <<via_list, disk, lib_inplace, todo, num_skipped, key, im, polygons,
                   instances, inst_todo, instance_idx, this_polygon_list, heap,
                   xform_inputs, fs, writes, opened, visited, error, inst_w, int_h, box>>

Next ==
    \/ Skip
    \/ OpenImage
    \/ OpenFail
    \/ NextInstance
    \/ Outline
    \/ Blur
    \/ Redact
    \/ Crop
    \/ SqCirc
    \/ EndImage
    \/ Finish

Spec == Init /\ [][Next]_vars

\* ------------------------------------------------- any loader mapping
\* the region lists tried under arbitrary keys: none, or one polygon
LoaderRegionLists == {rl \in RegionLists : Len(rl) = 0 \/ (Len(rl) = 1 /\ rl[1].inst = 0)}

\* main() at the head of the file loop, for any mapping from keys to records
InitLoader ==
    /\ \E D \in SUBSET Keys : \E fn \in [D -> Files] : \E rg \in [D -> LoaderRegionLists] :
          via_list = [k \in D |-> Anno(fn[k], rg[k])]
    /\ disk = Disk
    /\ lib_inplace \in BOOLEAN
    /\ todo = ViaFnameSet(via_list)
    /\ Locals

NextLoader == Next \/ LookupFail

SpecLoader == InitLoader /\ [][NextLoader]_vars

\* ============================================================ properties
Range(q) == {q[n] : n \in 1..Len(q)}
NoRepeat(q) == \A m, n \in 1..Len(q) : m # n => q[m] # q[n]

\* the file names the records refer to
ReferencedNames == {via_list[k].filename : k \in DOMAIN via_list}

\* the positions of a region list that carry instance id i
InstPositions(regions, i) == {j \in 1..Len(regions) : regions[j].inst = i}

\* the n-th polygon, in list order, among those carrying instance id i
NthPoly(regions, i, n) ==
    LET P == InstPositions(regions, i)
    IN regions[CHOOSE j \in P : Cardinality({j2 \in P : j2 <= j}) = n].poly

\* the output paths of the artifacts of the images in Files, tabulated
PathOf3 == [f \in Files, i \in InstIds, kind \in WholeKinds |-> OutPath3(f, i, kind)]
PathOf4 ==
    [f \in Files, i \in InstIds, kind \in PolyKinds, k \in 0..MaxRegions |->
        OutPath4(f, i, kind, k)]

\* every path the naming scheme can give to an artifact of (f, i)
ArtifactPaths(f, i) ==
    {PathOf3[f, i, kind] : kind \in WholeKinds}
      \cup {PathOf4[f, i, kind, k] : kind \in PolyKinds, k \in 0..MaxRegions}

Working == pc \in {"A", "B", "C", "D", "E"}

\* C1: after a completed run, for every image and every instance id that N > 0
\* of its polygons carry, the cropped, sq-cropped and circ-cropped files present
\* are exactly those with sub-indices 0..N-1, the outline, blurred and redacted
\* files are present, and the instance has 3 + 3N files in all; an id no polygon
\* carries has none.
C1_FilesPerInstance ==
    pc = "done" =>
      \A f \in DOMAIN via_list : \A i \in InstIds :
         LET N == Cardinality(InstPositions(via_list[f].regions, i))
         IN /\ N = 0 => ArtifactPaths(f, i) \cap DOMAIN fs = {}
            /\ N > 0 =>
                 /\ \A kind \in PolyKinds :
                       {k \in 0..MaxRegions : PathOf4[f, i, kind, k] \in DOMAIN fs}
                          = 0..(N - 1)
                 /\ \A kind \in WholeKinds : PathOf3[f, i, kind] \in DOMAIN fs
                 /\ Cardinality(ArtifactPaths(f, i) \cap DOMAIN fs) = 3 + 3 * N

\* cat.jpg with the single instance 0 of two polygons: nine files, the last of
\* them <out_dir>/cat-0-circ-cropped-1.jpg
C1_Witness ==
    /\ pc = "done"
    /\ DOMAIN via_list = {cat_jpg}
    /\ Len(via_list[cat_jpg].regions) = 2
    /\ \A j \in 1..2 : via_list[cat_jpg].regions[j].inst = 0
    /\ Cardinality(DOMAIN fs) = 9
    /\ <<"o","/","c","a","t","-","0","-","c","i","r","c","-","c","r","o","p","p","e","d",
         "-","1",".","j","p","g">> \in DOMAIN fs
    /\ <<"o","/","c","a","t","-","0","-","o","u","t","l","i","n","e",".","j","p","g">>
         \in DOMAIN fs

\* C2: an image without regions is never opened, has no output file and raises
\* no error; the skip counter is the number of such images the file loop has
\* reached, and after a completed run the number of all of them.
C2_SkipEmpty ==
    LET empties == {f \in DOMAIN via_list : Len(via_list[f].regions) = 0}
        reached == ReferencedNames \ todo
    IN /\ \A f \in empties :
             /\ via_list[f].filepath \notin Range(opened)
             /\ \A p \in DOMAIN fs : fs[p].src # via_list[f].filepath
       /\ num_skipped = Cardinality(empties \cap reached)
       /\ error # "none" => key \notin empties
       /\ pc = "done" => num_skipped = Cardinality(empties)

\* one image skipped, the other processed
C2_Witness ==
    /\ pc = "done"
    /\ num_skipped = 1
    /\ Cardinality(DOMAIN via_list) = 2
    /\ fs # NoFiles

\* C3: the box of every sq-cropped file, cut from a w x h polygon crop, has
\* width and height min(w, h), with x1 = w/2 - side/2, y1 = h/2 - side/2,
\* x2 = x1 + side, y2 = y1 + side.
C3_SquareSide ==
    \A p \in DOMAIN fs :
       (Len(fs[p].ops) = 2 /\ fs[p].ops[2][1] = "crop") =>
          LET w == CropSize(fs[p].ops[1][2])[1]
              h == CropSize(fs[p].ops[1][2])[2]
              bx == fs[p].ops[2][2]
              side == IF w < h THEN w ELSE h
          IN /\ bx[3] - bx[1] = side
             /\ bx[4] - bx[2] = side
             /\ bx[1] = (w \div 2) - (side \div 2)
             /\ bx[2] = (h \div 2) - (side \div 2)
             /\ bx[3] = bx[1] + side
             /\ bx[4] = bx[2] + side

\* the artifacts a completed run owes: (image, instance, kind) and
\* (image, instance, kind, sub-index)
OwedWhole ==
    {<<f, i, kind>> \in (DOMAIN via_list) \X InstIds \X WholeKinds :
        InstPositions(via_list[f].regions, i) # {}}
OwedPoly ==
    {<<f, i, kind, k>> \in (DOMAIN via_list) \X InstIds \X PolyKinds \X (0..MaxRegions) :
        k < Cardinality(InstPositions(via_list[f].regions, i))}

\* C4: every output path is saved exactly once, and after a completed run the
\* owed (image, instance, kind, sub-index) tuples have as many paths as there are
\* tuples, the paths of the files written.
C4_UniqueNames ==
    /\ DOMAIN writes = DOMAIN fs
    /\ \A p \in DOMAIN fs : writes[p] = 1
    /\ pc = "done" =>
         LET paths == {PathOf3[t[1], t[2], t[3]] : t \in OwedWhole}
                        \cup {PathOf4[t[1], t[2], t[3], t[4]] : t \in OwedPoly}
         IN /\ Cardinality(paths) = Cardinality(OwedWhole) + Cardinality(OwedPoly)
            /\ DOMAIN fs = paths

\* both images processed, one of them with a multi-polygon instance
C4_Witness ==
    /\ pc = "done"
    /\ Len(opened) = 2
    /\ \E f \in DOMAIN via_list : \E i \in InstIds :
          Cardinality(InstPositions(via_list[f].regions, i)) >= 2
    /\ Cardinality(DOMAIN fs) >= 15

\* C5: from the open until the image's last instance is done, the decoded
\* original holds the pixels it was decoded with and is never the buffer handed
\* to a transform.
C5_OriginalIntact ==
    (pc = "instances" \/ Working) =>
       /\ heap[im] = [src |-> via_list[key].filepath, ops |-> <<>>]
       /\ im \notin xform_inputs

\* a library that edits in place has run every transform of an instance
C5_Witness ==
    /\ pc = "instances"
    /\ lib_inplace
    /\ xform_inputs # {}
    /\ Len(this_polygon_list) >= 2
    /\ PathOf4[this_filename, instance_idx, "circ-cropped", 1] \in DOMAIN fs

\* C6: once an open has failed the run has stopped for good: no step follows,
\* the failing image and the images not yet reached were never opened and have
\* no output file.
C6_OpenFailureFatal ==
    error = "IOError" =>
       /\ pc = "aborted"
       /\ ~ENABLED Next
       /\ \A f \in todo \cup {key} :
             /\ via_list[f].filepath \notin Range(opened)
             /\ \A p \in DOMAIN fs : fs[p].src # via_list[f].filepath

\* the first image fails to open while another one with regions is waiting
C6_Witness ==
    /\ error = "IOError"
    /\ \E f \in todo : Len(via_list[f].regions) > 0

\* C7: the outline, blurred and redacted file of an instance holds the original
\* with one library call per polygon of the instance, in list order, each on the
\* result of the one before, and no other call.
C7_Cumulative ==
    \A f \in DOMAIN via_list : \A i \in InstIds :
       LET N == Cardinality(InstPositions(via_list[f].regions, i))
       IN N > 0 =>
            \A kind \in WholeKinds :
               LET path == PathOf3[f, i, kind]
               IN path \in DOMAIN fs =>
                    /\ fs[path].src = via_list[f].filepath
                    /\ Len(fs[path].ops) = N
                    /\ \A n \in 1..N :
                          fs[path].ops[n] = Op(kind, NthPoly(via_list[f].regions, i, n))

\* regions of instances 0, 1, 0: the redacted file of instance 0 holds two fills
C7_Witness ==
    \E f \in DOMAIN via_list :
       /\ Len(via_list[f].regions) = 3
       /\ via_list[f].regions[1].inst = 0
       /\ via_list[f].regions[2].inst = 1
       /\ via_list[f].regions[3].inst = 0
       /\ PathOf3[f, 0, "redacted"] \in DOMAIN fs
       /\ fs[PathOf3[f, 0, "redacted"]].ops
            = << <<"fill_region", 1, "yellow">>, <<"fill_region", 3, "yellow">> >>

\* C8: the polygon list of the instance in hand is the extracted polygons at the
\* positions carrying its id, in extraction order; every extracted polygon is in
\* the list of exactly one instance; and the file with sub-index k is made from
\* the k-th polygon of the instance.
C8_Grouping ==
    /\ Working =>
         LET P == {j \in 1..Len(instances) : instances[j] = instance_idx}
         IN /\ Len(this_polygon_list) = Cardinality(P)
            /\ \A j \in P :
                  this_polygon_list[Cardinality({j2 \in P : j2 <= j})] = polygons[j]
            /\ \A j \in 1..Len(polygons) :
                  Cardinality({i \in InstanceSet(instances) :
                                 polygons[j] \in Range(PolygonsOf(polygons, instances, i))}) = 1
            /\ \A i \in InstanceSet(instances) : NoRepeat(PolygonsOf(polygons, instances, i))
    /\ \A f \in DOMAIN via_list : \A i \in InstIds :
         \A k \in 0..(Cardinality(InstPositions(via_list[f].regions, i)) - 1) :
            LET poly == NthPoly(via_list[f].regions, i, k + 1)
                cr == PathOf4[f, i, "cropped", k]
                sq == PathOf4[f, i, "sq-cropped", k]
                ci == PathOf4[f, i, "circ-cropped", k]
            IN /\ cr \in DOMAIN fs => fs[cr].ops = << Op("cropped", poly) >>
               /\ sq \in DOMAIN fs => fs[sq].ops[1] = Op("sq-cropped", poly)
               /\ ci \in DOMAIN fs => fs[ci].ops[1] = Op("sq-cropped", poly)

\* instances 0, 1, 0: instance 0 has polygons 1 and 3, and its cropped files are out
C8_Witness ==
    /\ pc = "E"
    /\ instances = <<0, 1, 0>>
    /\ instance_idx = 0
    /\ this_polygon_list = <<1, 3>>
    /\ PathOf4[this_filename, 0, "cropped", 1] \in DOMAIN fs

\* C9: no image is opened twice; an output file exists only for an image opened
\* before; while an image is worked on, it is the last one opened and the decoded
\* buffer is the one of that open; after a completed run every image with regions
\* has been opened.
C9_OpenOnce ==
    /\ NoRepeat(opened)
    /\ \A p \in DOMAIN fs : fs[p].src \in Range(opened)
    /\ (pc = "instances" \/ Working) =>
          /\ opened[Len(opened)] = via_list[key].filepath
          /\ heap[im].src = via_list[key].filepath
    /\ pc = "done" =>
          \A f \in DOMAIN via_list :
             Len(via_list[f].regions) > 0 => via_list[f].filepath \in Range(opened)

\* two images opened, one of them with two instances, all files written
C9_Witness ==
    /\ pc = "done"
    /\ Len(opened) = 2
    /\ \E f \in DOMAIN via_list : Cardinality(InstanceSet(
            ViaRegionsToPolygons(via_list[f].regions).instances)) = 2

\* what C10 says of the file loop: the lookup has not failed, every record
\* looked up carries the name it was looked up under, no name is looked up
\* twice, and after a completed run every referenced name has been looked up
LookupsRight ==
    /\ error # "KeyError"
    /\ \A n \in 1..Len(visited) : visited[n].filename = visited[n].key
    /\ NoRepeat([n \in 1..Len(visited) |-> visited[n].filename])
    /\ pc = "done" => {visited[n].filename : n \in 1..Len(visited)} = ReferencedNames

\* C10 as stated: for every loader mapping the lookups are right
C10_AnyMapping == LookupsRight

\* every referenced file name is itself a key, of a record carrying that name
NamesAreKeys ==
    \A f \in ReferencedNames : f \in DOMAIN via_list /\ via_list[f].filename = f

\* C10 as amended: for every loader mapping in which every referenced file name
\* is a key whose record carries that name, the lookups are right, also when
\* further keys share the name.
C10_NamesAreKeys == NamesAreKeys => LookupsRight

\* a completed run over a mapping in which a second key shares a file name
C10_Witness ==
    /\ pc = "done"
    /\ NamesAreKeys
    /\ img_key \in DOMAIN via_list
    /\ Len(visited) = 2
====
